---- MODULE Spec2Model ----
(***************************************************************************)
(* The sequence controller of machined (runtime/v1alpha1): Controller.Run, *)
(* its single-flight lock (TryLock / Unlock on the semaphore field), the   *)
(* serial execution of phases (run) and the concurrent execution of the    *)
(* tasks of one phase under an errgroup.Group (runPhase / runTask).        *)
(***************************************************************************)
EXTENDS Integers, Sequences, FiniteSets, TLC

(* ------------------------------ bounds --------------------------------- *)

\* number of goroutines that call Controller.Run concurrently
NumCallers == 2

\* longest plan ([]runtime.Phase) the sequencer hands out
MaxPhases == 2

\* largest phase ([]runtime.TaskSetupFunc)
MaxTasks == 2

\* longest series of direct TryLock / Unlock calls
MaxLockOps == 4

Callers == 1..NumCallers

\* the goroutines ListenForEvents starts call Run too
SigProc == NumCallers + 1

AcpiProc == NumCallers + 2

\* the goroutines of ListenForEvents
Listeners == {SigProc, AcpiProc}

\* everything that can be inside Run
Procs == Callers \cup {SigProc, AcpiProc}

(* ------------------------------ values --------------------------------- *)

\* runtime.Sequence, by its String() name
Sequences == {"boot", "initialize", "install", "shutdown", "reboot", "upgrade", "reset"}

\* dynamic type of the `data interface{}` argument of Run
DataTypes == {"nil", "UpgradeRequest", "ResetRequest"}

\* the (seq, data) arguments the callers of the full specification draw from
RunInputs == {<<"shutdown", "nil">>, <<"upgrade", "nil">>, <<"upgrade", "UpgradeRequest">>}

\* the Run calls made next to the listener's
OtherRuns == {<<"boot", "nil">>}

\* every (seq, data) argument
AllInputs == Sequences \X DataTypes

nil == [kind |-> "nil"]

ErrUndefinedRuntime == [kind |-> "ErrUndefinedRuntime"]

ErrLocked == [kind |-> "ErrLocked"]

ErrInvalidSequenceData == [kind |-> "ErrInvalidSequenceData"]

\* no value yet
none == [kind |-> "none"]

\* the error of a failed acpi.StartACPIListener
ErrACPI == [kind |-> "acpi"]

\* what acpi.StartACPIListener can return: nil on a power event, or its error
AcpiResults == {nil, ErrACPI}

\* runtime.ModeContainer and a mode that is not
Modes == {"container", "metal"}

\* sigs := make(chan os.Signal, 1)
SigsCap == 1

\* errCh := make(chan error, 2)
ErrChCap == 2

\* the error kmsg.SetupLogger can return
ErrSetupLogger == [kind |-> "kmsg"]

\* the errors a task function can return
TaskErrs == {[kind |-> "errors", msg |-> "disk busy"]}

\* a task factory (runtime.TaskSetupFunc); what it does is decided when it runs
TaskFuncs == {"f"}

\* sequences over S of length lo..hi
SeqsOf(S, lo, hi) == UNION {[1..n -> S] : n \in lo..hi}

\* the plans the sequencer can hand out
Plans == SeqsOf(SeqsOf(TaskFuncs, 1, MaxTasks), 0, MaxPhases)

\* the plans of at most one phase of one task
ShortPlans == SeqsOf(SeqsOf(TaskFuncs, 1, 1), 0, 1)

(* ------------------------------- state --------------------------------- *)

VARIABLES
    hasRuntime,  \* c.r != nil
    semaphore,   \* c.semaphore
    pc,          \* pc[c]: where caller c is in Run
    seq,         \* seq[c], data[c]: the arguments of c's Run call
    data,
    plan,        \* plan[c]: the phases c's Run got from phases()
    idx,         \* idx[c]: range index of the phase c's run() is at
    tasks,       \* tasks[c][j]: the j-th goroutine of the errgroup: its state, its phase
    egErr,       \* egErr[c]: the errgroup's err (set once)
    ret,         \* ret[c]: the value of the return statement c's Run has executed
    lockCall,    \* last direct TryLock / Unlock call and what it returned
    released,    \* history: some Run that held the lock has returned
    started,     \* history: <<phase, task>> positions launched in c's Run
    finished,    \* history: <<phase, task>> positions that have finished
    failed,      \* history: how many tasks of c's Run finished with an error
    first,       \* history: <<task, err>> of the first failure of the current phase
    lk,          \* lk[c]: the direct TryLock / Unlock call caller c is in
    lockLog,     \* history: the direct calls and their results, in the order of their swaps
    stolen,      \* history: a direct Unlock has cleared the flag a Run had set
    lastClear,   \* history: who called Unlock last, Run's defer or a direct caller
    mode,        \* c.r.State().Platform().Mode(), once ListenForEvents has read it
    lpc,         \* where ListenForEvents is
    lret,        \* the value ListenForEvents returned
    lfrom,       \* history: the goroutine whose result ListenForEvents returned
    sigs,        \* number of signals in the sigs channel
    sigAt,       \* history: where ListenForEvents was when SIGTERM was delivered
    notified,    \* signal.Notify(sigs, SIGTERM) is in force
    gpc,         \* gpc[g]: where goroutine g of ListenForEvents is
    acpiRes,     \* history: what acpi.StartACPIListener returned
    acpiAt,      \* history: where ListenForEvents was when StartACPIListener returned
    errCh,       \* the errCh channel; each value with the goroutine that sent it
    trig         \* history: trig[g]: what the Run(shutdown) of goroutine g returned

\* the controller and its Run calls
ctl == <<hasRuntime, semaphore, pc, seq, data, plan, idx, tasks, egErr, ret,
         lockCall, released, started, finished, failed, first>>

\* the direct users of the lock
lockv == <<lk, lockLog>>

unlockv == <<stolen, lastClear>>

\* ListenForEvents and its goroutines
listenv == <<mode, lpc, lret, lfrom, sigs, sigAt, notified, gpc, acpiRes, acpiAt, errCh, trig>>

vars == <<ctl, lockv, unlockv, listenv>>

frame == <<seq, data, plan, idx, tasks, egErr>>

hist == <<started, finished, failed, first>>

(* --------------------------- the lock primitive ------------------------ *)

\* a swap that does not compare
CompareAndSwapInt32_Blind(v, old, new) == [swapped |-> TRUE, val |-> new]

\* atomic.CompareAndSwapInt32(&v, old, new)
CompareAndSwapInt32(v, old, new) ==
    [swapped |-> v = old, val |-> IF v = old THEN new ELSE v]

\* TryLock that reads the flag and does not set it
TryLock_Load(sem) == [ret |-> sem = 1, sem |-> sem]

\* TryLock with a plain store in place of the compare-and-swap
TryLock_Store(sem) == [ret |-> FALSE, sem |-> 1]

\* TryLock without the negation of the swap's result
TryLock_Inverted(sem) ==
    LET r == CompareAndSwapInt32(sem, 0, 1)
    IN  [ret |-> r.swapped, sem |-> r.val]

\* Controller.TryLock: true when the lock was already held
TryLock(sem) ==
    LET r == CompareAndSwapInt32(sem, 0, 1)
    IN  [ret |-> ~r.swapped, sem |-> r.val]

\* Unlock that leaves the flag as it is
Unlock_Keep(sem) == [ret |-> FALSE, sem |-> sem]

\* Controller.Unlock
Unlock(sem) ==
    LET r == CompareAndSwapInt32(sem, 1, 0)
    IN  [ret |-> r.swapped, sem |-> r.val]

(* ------------------------------ planning ------------------------------- *)

\* phases with the type assertion of the upgrade case left out
phases_UpgradeUnchecked(s, d, p) ==
    CASE s \in {"boot", "initialize", "install", "shutdown", "reboot", "upgrade"} ->
             [phases |-> p, err |-> nil]
      [] s = "reset" ->
             IF d # "ResetRequest"
             THEN [phases |-> <<>>, err |-> ErrInvalidSequenceData]
             ELSE [phases |-> p, err |-> nil]
      [] OTHER -> [phases |-> <<>>, err |-> nil]

\* phases asking every sequence without a payload type for a nil payload
phases_Strict(s, d, p) ==
    CASE s \in {"boot", "initialize", "install", "shutdown", "reboot"} ->
             IF d # "nil"
             THEN [phases |-> <<>>, err |-> ErrInvalidSequenceData]
             ELSE [phases |-> p, err |-> nil]
      [] s = "upgrade" ->
             IF d # "UpgradeRequest"
             THEN [phases |-> <<>>, err |-> ErrInvalidSequenceData]
             ELSE [phases |-> p, err |-> nil]
      [] s = "reset" ->
             IF d # "ResetRequest"
             THEN [phases |-> <<>>, err |-> ErrInvalidSequenceData]
             ELSE [phases |-> p, err |-> nil]
      [] OTHER -> [phases |-> <<>>, err |-> nil]

\* Controller.phases; p is what the sequencer's method for s returns
phases(s, d, p) ==
    CASE s \in {"boot", "initialize", "install", "shutdown", "reboot"} ->
             [phases |-> p, err |-> nil]
      [] s = "upgrade" ->
             IF d # "UpgradeRequest"
             THEN [phases |-> <<>>, err |-> ErrInvalidSequenceData]
             ELSE [phases |-> p, err |-> nil]
      [] s = "reset" ->
             IF d # "ResetRequest"
             THEN [phases |-> <<>>, err |-> ErrInvalidSequenceData]
             ELSE [phases |-> p, err |-> nil]
      [] OTHER -> [phases |-> <<>>, err |-> nil]

(* ------------------------------ errors --------------------------------- *)

\* run without its number++
PhaseNumber_ZeroBased(i) == i

\* run: number++ on the range index
PhaseNumber(i) == i + 1

\* runPhase without its number++
TaskNumber_ZeroBased(i) == i

\* runPhase: number++ on the range index
TaskNumber(i) == i + 1

\* run: fmt.Errorf("error running phase %d in %s sequence: %w", number, seq.String(), err);
\* progress, "%d/%d" of number and len(phases), goes to the log only
PhaseErrorf(number, s, err) ==
    [kind |-> "phase", number |-> number, seq |-> s, cause |-> err]

\* runPhase: progress is "%d/%d" of number and len(phase);
\* fmt.Errorf("task %s: failed, %w", progress, err)
TaskErrorf(number, total, err) ==
    [kind |-> "task", number |-> number, total |-> total, cause |-> err]

\* runTask: the logger's error, nothing for a nil task, else the task's result
runTask(loggerErr, task, result) ==
    IF loggerErr # nil THEN loggerErr
    ELSE IF task = "nil" THEN nil
    ELSE result

\* an error group that keeps the last error
errOnce_Last(cur, err) == err

\* errgroup: g.errOnce.Do(func() { g.err = err })
errOnce(cur, err) == IF cur = nil THEN err ELSE cur

\* runPhase returning without the Wait
WaitDone_NoWait(ts) == TRUE

\* errgroup: Wait returns when every goroutine started by Go has returned
WaitDone(ts) == \A j \in 1..Len(ts) : ts[j].state = "done"

(* ------------------------------- Init ---------------------------------- *)

\* the Controller NewController returns (or one without a Runtime), no call made
InitController ==
    /\ hasRuntime \in BOOLEAN
    /\ semaphore = 0
    /\ pc = [c \in Procs |-> "idle"]
    /\ seq = [c \in Procs |-> "none"]
    /\ data = [c \in Procs |-> "nil"]
    /\ plan = [c \in Procs |-> <<>>]
    /\ idx = [c \in Procs |-> 0]
    /\ tasks = [c \in Procs |-> <<>>]
    /\ egErr = [c \in Procs |-> nil]
    /\ ret = [c \in Procs |-> nil]
    /\ lockCall = [op |-> "none", ret |-> FALSE]
    /\ released = FALSE
    /\ started = [c \in Procs |-> {}]
    /\ finished = [c \in Procs |-> {}]
    /\ failed = [c \in Procs |-> 0]
    /\ first = [c \in Procs |-> <<>>]

\* no direct call of the lock in progress or made
InitLock ==
    /\ lk = [c \in Callers |-> "idle"]
    /\ lockLog = <<>>
    /\ stolen = FALSE
    /\ lastClear = "none"

\* ListenForEvents not called
InitListener ==
    /\ mode = "unread"
    /\ lpc = "idle"
    /\ lret = nil
    /\ lfrom = 0
    /\ sigs = 0
    /\ sigAt = "none"
    /\ notified = FALSE
    /\ gpc = [g \in Listeners |-> "none"]
    /\ acpiRes = none
    /\ acpiAt = "none"
    /\ errCh = <<>>
    /\ trig = [g \in Listeners |-> none]

Init == InitController /\ InitLock /\ InitListener

(* ------------------------------- Run ----------------------------------- *)

\* Run executes `return err`: the call ends in its next step
ReturnStmt(c, err, deferred) ==
    /\ pc' = [pc EXCEPT ![c] = IF deferred THEN "Unlock" ELSE "return"]
    /\ ret' = [ret EXCEPT ![c] = err]

\* Run taking the lock before it looks at c.r
Run_LockFirst(c, s, d) ==
    /\ pc[c] = "idle"
    /\ seq' = [seq EXCEPT ![c] = s]
    /\ data' = [data EXCEPT ![c] = d]
    /\ LET l == TryLock(semaphore)
       IN  /\ semaphore' = l.sem
           /\ IF l.ret
              THEN ReturnStmt(c, ErrLocked, FALSE)
              ELSE IF ~hasRuntime
              THEN ReturnStmt(c, ErrUndefinedRuntime, FALSE)
              ELSE /\ pc' = [pc EXCEPT ![c] = "phases"]
                   /\ UNCHANGED ret
    /\ UNCHANGED <<hasRuntime, plan, idx, tasks, egErr, lockCall, released, hist>>

\* a goroutine calls c.Run(s, d). Run, up to its defer statement:
\*   if c.r == nil { return runtime.ErrUndefinedRuntime }
\*   if c.TryLock() { return runtime.ErrLocked }
\*   defer c.Unlock()
Run(c, s, d) ==
    /\ pc[c] = "idle"
    /\ seq' = [seq EXCEPT ![c] = s]
    /\ data' = [data EXCEPT ![c] = d]
    /\ IF ~hasRuntime
       THEN /\ ReturnStmt(c, ErrUndefinedRuntime, FALSE)
            /\ UNCHANGED semaphore
       ELSE LET l == TryLock(semaphore)
            IN  /\ semaphore' = l.sem
                /\ IF l.ret
                   THEN ReturnStmt(c, ErrLocked, FALSE)
                   ELSE /\ pc' = [pc EXCEPT ![c] = "phases"]
                        /\ UNCHANGED ret
    /\ UNCHANGED <<hasRuntime, plan, idx, tasks, egErr, lockCall, released, hist>>

\* Run unlocking at its end only, not by defer: the early return keeps the lock
RunPhases_NoDefer(c) ==
    /\ pc[c] = "phases"
    /\ \E p \in Plans :
          LET r == phases(seq[c], data[c], p)
          IN  IF r.err # nil
              THEN /\ ReturnStmt(c, r.err, FALSE)
                   /\ UNCHANGED plan
              ELSE /\ pc' = [pc EXCEPT ![c] = "run"]
                   /\ plan' = [plan EXCEPT ![c] = r.phases]
                   /\ UNCHANGED ret
    /\ UNCHANGED <<hasRuntime, semaphore, seq, data, idx, tasks, egErr, lockCall, released, hist>>

\* Run: phases, err := c.phases(seq, data); if err != nil { return err }
RunPhases(c) ==
    /\ pc[c] = "phases"
    /\ \E p \in Plans :
          LET r == phases(seq[c], data[c], p)
          IN  IF r.err # nil
              THEN /\ ReturnStmt(c, r.err, TRUE)
                   /\ UNCHANGED plan
              ELSE /\ pc' = [pc EXCEPT ![c] = "run"]
                   /\ plan' = [plan EXCEPT ![c] = r.phases]
                   /\ UNCHANGED ret
    /\ UNCHANGED <<hasRuntime, semaphore, seq, data, idx, tasks, egErr, lockCall, released, hist>>

\* run: the head of `for number, phase = range phases`, and `return nil` after it
runRange(c) ==
    /\ pc[c] = "run"
    /\ IF idx[c] < Len(plan[c])
       THEN /\ pc' = [pc EXCEPT ![c] = "runPhase"]
            /\ tasks' = [tasks EXCEPT ![c] = <<>>]
            /\ egErr' = [egErr EXCEPT ![c] = nil]
            /\ first' = [first EXCEPT ![c] = <<>>]
            /\ UNCHANGED ret
       ELSE /\ ReturnStmt(c, nil, TRUE)
            /\ UNCHANGED <<tasks, egErr, first>>
    /\ UNCHANGED <<hasRuntime, semaphore, seq, data, plan, idx, lockCall, released,
                   started, finished, failed>>

\* runPhase: one iteration of `for number, task := range phase`: eg.Go(...)
runPhaseGo(c) ==
    /\ pc[c] = "runPhase"
    /\ Len(tasks[c]) < Len(plan[c][idx[c] + 1])
    /\ tasks' = [tasks EXCEPT ![c] = Append(@, [state |-> "running", phase |-> idx[c] + 1])]
    /\ started' = [started EXCEPT ![c] = @ \cup {<<idx[c] + 1, Len(tasks[c]) + 1>>}]
    /\ UNCHANGED <<hasRuntime, semaphore, pc, seq, data, plan, idx, egErr, ret,
                   lockCall, released, finished, failed, first>>

\* the goroutine eg.Go started for the j-th task runs to its end
TaskRun(c, j) ==
    /\ j \in 1..Len(tasks[c])
    /\ tasks[c][j].state = "running"
    /\ \E cause \in {runTask(loggerErr, task, result) :
                          loggerErr \in {nil, ErrSetupLogger}, task \in {"nil", "task"},
                          result \in {nil} \cup TaskErrs} :
          LET total == Len(plan[c][tasks[c][j].phase])
              err   == IF cause # nil
                       THEN TaskErrorf(TaskNumber(j - 1), total, cause)
                       ELSE nil
          IN  /\ egErr' = [egErr EXCEPT ![c] = IF err # nil THEN errOnce(@, err) ELSE @]
              /\ failed' = [failed EXCEPT ![c] = IF cause # nil THEN @ + 1 ELSE @]
              /\ first' = [first EXCEPT ![c] =
                               IF cause # nil /\ @ = <<>> THEN <<j, cause>> ELSE @]
    /\ tasks' = [tasks EXCEPT ![c][j].state = "done"]
    /\ finished' = [finished EXCEPT ![c] = @ \cup {<<tasks[c][j].phase, j>>}]
    /\ UNCHANGED <<hasRuntime, semaphore, pc, seq, data, plan, idx, ret, lockCall,
                   released, started>>

\* run going on to the next phase whatever runPhase returned
runPhaseWait_Continue(c) ==
    /\ pc[c] = "runPhase"
    /\ Len(tasks[c]) = Len(plan[c][idx[c] + 1])
    /\ WaitDone(tasks[c])
    /\ pc' = [pc EXCEPT ![c] = "run"]
    /\ idx' = [idx EXCEPT ![c] = @ + 1]
    /\ UNCHANGED <<hasRuntime, semaphore, seq, data, plan, tasks, egErr, ret, lockCall,
                   released, hist>>

\* runPhase returning at the first error, without waiting for the other tasks
runPhaseWait_FailFast(c) ==
    /\ pc[c] = "runPhase"
    /\ \/ egErr[c] # nil
       \/ Len(tasks[c]) = Len(plan[c][idx[c] + 1]) /\ WaitDone(tasks[c])
    /\ IF egErr[c] # nil
       THEN /\ ReturnStmt(c, PhaseErrorf(PhaseNumber(idx[c]), seq[c], egErr[c]), TRUE)
            /\ UNCHANGED idx
       ELSE /\ pc' = [pc EXCEPT ![c] = "run"]
            /\ idx' = [idx EXCEPT ![c] = @ + 1]
            /\ UNCHANGED ret
    /\ UNCHANGED <<hasRuntime, semaphore, seq, data, plan, tasks, egErr, lockCall,
                   released, hist>>

\* runPhase: return eg.Wait(); run: wrap the error and return, or go on
runPhaseWait(c) ==
    /\ pc[c] = "runPhase"
    /\ Len(tasks[c]) = Len(plan[c][idx[c] + 1])
    /\ WaitDone(tasks[c])
    /\ IF egErr[c] # nil
       THEN /\ ReturnStmt(c, PhaseErrorf(PhaseNumber(idx[c]), seq[c], egErr[c]), TRUE)
            /\ UNCHANGED idx
       ELSE /\ pc' = [pc EXCEPT ![c] = "run"]
            /\ idx' = [idx EXCEPT ![c] = @ + 1]
            /\ UNCHANGED ret
    /\ UNCHANGED <<hasRuntime, semaphore, seq, data, plan, tasks, egErr, lockCall,
                   released, hist>>

\* the call is over: its frame is gone
EndCall(c) ==
    /\ pc' = [pc EXCEPT ![c] = "idle"]
    /\ ret' = [ret EXCEPT ![c] = nil]
    /\ seq' = [seq EXCEPT ![c] = "none"]
    /\ data' = [data EXCEPT ![c] = "nil"]
    /\ plan' = [plan EXCEPT ![c] = <<>>]
    /\ idx' = [idx EXCEPT ![c] = 0]
    /\ tasks' = [tasks EXCEPT ![c] = <<>>]
    /\ egErr' = [egErr EXCEPT ![c] = nil]
    /\ started' = [started EXCEPT ![c] = {}]
    /\ finished' = [finished EXCEPT ![c] = {}]
    /\ failed' = [failed EXCEPT ![c] = 0]
    /\ first' = [first EXCEPT ![c] = <<>>]

\* Run: the deferred c.Unlock() runs and Run returns ret[c] to its caller
RunUnlock(c) ==
    /\ pc[c] = "Unlock"
    /\ semaphore' = Unlock(semaphore).sem
    /\ released' = TRUE
    /\ EndCall(c)
    /\ UNCHANGED <<hasRuntime, lockCall>>

\* Run returns ret[c] to its caller from before the defer statement
RunReturn(c) ==
    /\ pc[c] = "return"
    /\ EndCall(c)
    /\ UNCHANGED <<hasRuntime, semaphore, lockCall, released>>

(* ---------------------- direct calls of the lock ------------------------ *)

\* some goroutine calls the public c.TryLock()
CallTryLock ==
    /\ semaphore' = TryLock(semaphore).sem
    /\ lockCall' = [op |-> "TryLock", ret |-> TryLock(semaphore).ret]
    /\ UNCHANGED <<hasRuntime, pc, frame, ret, released, hist>>

\* some goroutine calls the public c.Unlock()
CallUnlock ==
    /\ semaphore' = Unlock(semaphore).sem
    /\ lockCall' = [op |-> "Unlock", ret |-> Unlock(semaphore).ret]
    /\ UNCHANGED <<hasRuntime, pc, frame, ret, released, hist>>

(* --------------------------- specifications ---------------------------- *)

\* Run is the only user of the lock
Next ==
    \E c \in Callers :
       \/ \E in \in RunInputs : Run(c, in[1], in[2]) /\ UNCHANGED <<lockv, unlockv, listenv>>
       \/ RunPhases(c) /\ UNCHANGED <<lockv, unlockv, listenv>>
       \/ runRange(c) /\ UNCHANGED <<lockv, unlockv, listenv>>
       \/ runPhaseGo(c) /\ UNCHANGED <<lockv, unlockv, listenv>>
       \/ \E j \in 1..MaxTasks : TaskRun(c, j) /\ UNCHANGED <<lockv, unlockv, listenv>>
       \/ runPhaseWait(c) /\ UNCHANGED <<lockv, unlockv, listenv>>
       \/ RunUnlock(c) /\ UNCHANGED <<lockv, unlockv, listenv>>
       \/ RunReturn(c) /\ UNCHANGED <<lockv, unlockv, listenv>>

Spec == Init /\ [][Next]_vars

\* a Controller without a Runtime (c.r == nil), its lock taken and released
\* directly, Run called with every argument
InitNoRuntime == Init /\ ~hasRuntime

NextNoRuntime ==
    \/ \E c \in Callers :
          \/ \E in \in AllInputs : Run(c, in[1], in[2]) /\ UNCHANGED <<lockv, unlockv, listenv>>
          \/ RunReturn(c) /\ UNCHANGED <<lockv, unlockv, listenv>>
    \/ CallTryLock /\ UNCHANGED <<lockv, unlockv, listenv>>
    \/ CallUnlock /\ UNCHANGED <<lockv, unlockv, listenv>>

SpecNoRuntime == InitNoRuntime /\ [][NextNoRuntime]_vars

(* ------------- goroutines calling TryLock and Unlock directly ----------- *)

\* the direct calls begun and not yet returned
InLockCall == {c \in Callers : lk[c] # "idle"}

\* caller c begins a call of c.TryLock() or c.Unlock()
LockEnter(c, op) ==
    /\ lk[c] = "idle"
    /\ Len(lockLog) + Cardinality(InLockCall) < MaxLockOps
    /\ lk' = [lk EXCEPT ![c] = op]
    /\ UNCHANGED <<ctl, lockLog, unlockv, listenv>>

\* what c's call did, and the callers inside TryLock at that moment
LogEntry(c, r) ==
    [who |-> c, op |-> lk[c], ret |-> r, conc |-> {d \in Callers \ {c} : lk[d] = "TryLock"}]

\* c's TryLock does its compare-and-swap and returns
LockTryLock(c) ==
    /\ lk[c] = "TryLock"
    /\ CallTryLock
    /\ lockLog' = Append(lockLog, LogEntry(c, TryLock(semaphore).ret))
    /\ lk' = [lk EXCEPT ![c] = "idle"]
    /\ UNCHANGED <<unlockv, listenv>>

\* c's Unlock does its compare-and-swap and returns
LockUnlock(c) ==
    /\ lk[c] = "Unlock"
    /\ CallUnlock
    /\ lockLog' = Append(lockLog, LogEntry(c, Unlock(semaphore).ret))
    /\ lk' = [lk EXCEPT ![c] = "idle"]
    /\ UNCHANGED <<unlockv, listenv>>

NextLock ==
    \E c \in Callers :
       \/ \E op \in {"TryLock", "Unlock"} : LockEnter(c, op)
       \/ LockTryLock(c)
       \/ LockUnlock(c)

SpecLock == Init /\ [][NextLock]_vars

(* ----------------- Run next to direct calls of Unlock ------------------- *)

\* a goroutine that is not inside Run calls the public c.Unlock()
DirectUnlock ==
    /\ CallUnlock
    /\ stolen' = (stolen \/ semaphore = 1)
    /\ lastClear' = "direct"
    /\ UNCHANGED <<lockv, listenv>>

\* Run's deferred c.Unlock()
DeferredUnlock(c) ==
    /\ RunUnlock(c)
    /\ lastClear' = "deferred"
    /\ UNCHANGED <<stolen, lockv, listenv>>

InitUnlock == Init /\ hasRuntime

\* Run as in Next, with short plans, and Unlock called from outside Run
NextUnlock ==
    \/ DirectUnlock
    \/ \E c \in Callers :
          \/ \E in \in RunInputs : Run(c, in[1], in[2]) /\ UNCHANGED <<lockv, unlockv, listenv>>
          \/ RunPhases(c) /\ plan'[c] \in ShortPlans /\ UNCHANGED <<lockv, unlockv, listenv>>
          \/ runRange(c) /\ UNCHANGED <<lockv, unlockv, listenv>>
          \/ runPhaseGo(c) /\ UNCHANGED <<lockv, unlockv, listenv>>
          \/ \E j \in 1..MaxTasks : TaskRun(c, j) /\ UNCHANGED <<lockv, unlockv, listenv>>
          \/ runPhaseWait(c) /\ UNCHANGED <<lockv, unlockv, listenv>>
          \/ DeferredUnlock(c)
          \/ RunReturn(c) /\ UNCHANGED <<lockv, unlockv, listenv>>

SpecUnlock == InitUnlock /\ [][NextUnlock]_vars

(* --------------------------- ListenForEvents ---------------------------- *)

\* ListenForEvents up to the first `go`: sigs, signal.Notify, errCh, and the goroutine
\* that waits for the signal
ListenForEvents ==
    /\ lpc = "idle"
    /\ sigs' = 0
    /\ notified' = TRUE
    /\ errCh' = <<>>
    /\ gpc' = [gpc EXCEPT ![SigProc] = "wait"]
    /\ lpc' = "mode"
    /\ UNCHANGED <<ctl, lockv, unlockv, mode, lret, lfrom, sigAt, acpiRes, acpiAt, trig>>

\* ListenForEvents returning nil whatever the mode is
ListenMode_ReturnAlways(m) ==
    /\ lpc = "mode"
    /\ mode' = m
    /\ lpc' = "returned"
    /\ lret' = nil
    /\ UNCHANGED <<ctl, lockv, unlockv, lfrom, sigs, sigAt, notified, gpc, acpiRes, acpiAt, errCh, trig>>

\* ListenForEvents starting the ACPI goroutine whatever the mode is
ListenMode_NoCheck(m) ==
    /\ lpc = "mode"
    /\ mode' = m
    /\ gpc' = [gpc EXCEPT ![AcpiProc] = "wait"]
    /\ lpc' = "recv"
    /\ UNCHANGED <<ctl, lockv, unlockv, lret, lfrom, sigs, sigAt, notified, acpiRes, acpiAt, errCh, trig>>

\* ListenForEvents: if c.r.State().Platform().Mode() == runtime.ModeContainer
\* { return nil }; otherwise the second `go`, whose goroutine enters
\* acpi.StartACPIListener. m is the mode of the platform.
ListenMode(m) ==
    /\ lpc = "mode"
    /\ mode' = m
    /\ IF m = "container"
       THEN /\ lpc' = "returned"
            /\ lret' = nil
            /\ UNCHANGED gpc
       ELSE /\ gpc' = [gpc EXCEPT ![AcpiProc] = "wait"]
            /\ lpc' = "recv"
            /\ UNCHANGED lret
    /\ UNCHANGED <<ctl, lockv, unlockv, lfrom, sigs, sigAt, notified, acpiRes, acpiAt, errCh, trig>>

\* ListenForEvents returning only when both goroutines have sent
ListenRecv_WaitBoth ==
    /\ lpc = "recv"
    /\ Len(errCh) = ErrChCap
    /\ lret' = Head(errCh).err
    /\ lfrom' = Head(errCh).from
    /\ errCh' = Tail(errCh)
    /\ lpc' = "returned"
    /\ UNCHANGED <<ctl, lockv, unlockv, mode, sigs, sigAt, notified, gpc, acpiRes, acpiAt, trig>>

\* ListenForEvents: err := <-errCh; return err
ListenRecv ==
    /\ lpc = "recv"
    /\ errCh # <<>>
    /\ lret' = Head(errCh).err
    /\ lfrom' = Head(errCh).from
    /\ errCh' = Tail(errCh)
    /\ lpc' = "returned"
    /\ UNCHANGED <<ctl, lockv, unlockv, mode, sigs, sigAt, notified, gpc, acpiRes, acpiAt, trig>>

\* the process is sent SIGTERM while signal.Notify is in force: the signal goes into
\* sigs if there is room and is dropped if there is none
Sigterm ==
    /\ notified
    /\ sigs < SigsCap
    /\ sigs' = sigs + 1
    /\ sigAt' = lpc
    /\ UNCHANGED <<ctl, lockv, unlockv, mode, lpc, lret, lfrom, notified, gpc, acpiRes, acpiAt, errCh, trig>>

\* first goroutine: <-sigs; signal.Stop(sigs)
SigRecv ==
    /\ gpc[SigProc] = "wait"
    /\ sigs > 0
    /\ sigs' = sigs - 1
    /\ notified' = FALSE
    /\ gpc' = [gpc EXCEPT ![SigProc] = "call"]
    /\ UNCHANGED <<ctl, lockv, unlockv, mode, lpc, lret, lfrom, sigAt, acpiRes, acpiAt, errCh, trig>>

\* a goroutine puts v into errCh
Send(g, v) ==
    /\ Len(errCh) < ErrChCap
    /\ errCh' = Append(errCh, [err |-> v, from |-> g])

\* the ACPI goroutine going on to Run(shutdown) after an error too
AcpiListen_RunOnError(r) ==
    /\ gpc[AcpiProc] = "wait"
    /\ acpiRes' = r
    /\ acpiAt' = lpc
    /\ gpc' = [gpc EXCEPT ![AcpiProc] = "call"]
    /\ UNCHANGED <<ctl, lockv, unlockv, mode, lpc, lret, lfrom, sigs, sigAt, notified, errCh, trig>>

\* second goroutine: if err := acpi.StartACPIListener(); err != nil { errCh <- err; return }
\* r is what StartACPIListener returns
AcpiListen(r) ==
    /\ gpc[AcpiProc] = "wait"
    /\ acpiRes' = r
    /\ acpiAt' = lpc
    /\ IF r # nil
       THEN /\ Send(AcpiProc, r)
            /\ gpc' = [gpc EXCEPT ![AcpiProc] = "done"]
       ELSE /\ gpc' = [gpc EXCEPT ![AcpiProc] = "call"]
            /\ UNCHANGED errCh
    /\ UNCHANGED <<ctl, lockv, unlockv, mode, lpc, lret, lfrom, sigs, sigAt, notified, trig>>

\* either goroutine: c.Run(runtime.SequenceShutdown, nil)
ListenerRun(g) ==
    /\ gpc[g] = "call"
    /\ Run(g, "shutdown", "nil")
    /\ gpc' = [gpc EXCEPT ![g] = "run"]
    /\ UNCHANGED <<lockv, unlockv, mode, lpc, lret, lfrom, sigs, sigAt, notified, acpiRes, acpiAt, errCh, trig>>

\* the goroutine calling Run again when Run returned ErrLocked
ListenerRunEnd_Retry(g) ==
    /\ gpc[g] = "run"
    /\ RunUnlock(g) \/ RunReturn(g)
    /\ trig' = [trig EXCEPT ![g] = ret[g]]
    /\ gpc' = [gpc EXCEPT ![g] = IF ret[g] = ErrLocked THEN "call" ELSE "send"]
    /\ UNCHANGED <<lockv, unlockv, mode, lpc, lret, lfrom, sigs, sigAt, notified, acpiRes, acpiAt, errCh>>

\* either goroutine: Run returns; if err != nil { log.Printf("shutdown failed: %v", err) }
ListenerRunEnd(g) ==
    /\ gpc[g] = "run"
    /\ RunUnlock(g) \/ RunReturn(g)
    /\ trig' = [trig EXCEPT ![g] = ret[g]]
    /\ gpc' = [gpc EXCEPT ![g] = "send"]
    /\ UNCHANGED <<lockv, unlockv, mode, lpc, lret, lfrom, sigs, sigAt, notified, acpiRes, acpiAt, errCh>>

\* the goroutine sending what Run returned
ListenerSend_RunError(g) ==
    /\ gpc[g] = "send"
    /\ Send(g, trig[g])
    /\ gpc' = [gpc EXCEPT ![g] = "done"]
    /\ UNCHANGED <<ctl, lockv, unlockv, mode, lpc, lret, lfrom, sigs, sigAt, notified, acpiRes, acpiAt, trig>>

\* either goroutine: errCh <- nil
ListenerSend(g) ==
    /\ gpc[g] = "send"
    /\ Send(g, nil)
    /\ gpc' = [gpc EXCEPT ![g] = "done"]
    /\ UNCHANGED <<ctl, lockv, unlockv, mode, lpc, lret, lfrom, sigs, sigAt, notified, acpiRes, acpiAt, trig>>

InitListen == Init /\ hasRuntime

\* ListenForEvents, its goroutines, SIGTERM, and the Run calls of other callers; the
\* sequencer hands out short plans
NextListen ==
    \/ ListenForEvents
    \/ \E m \in Modes : ListenMode(m)
    \/ ListenRecv
    \/ Sigterm
    \/ SigRecv
    \/ \E r \in AcpiResults : AcpiListen(r)
    \/ \E g \in Listeners :
          \/ ListenerRun(g)
          \/ ListenerRunEnd(g)
          \/ ListenerSend(g)
    \/ \E c \in Callers :
          \/ \E in \in OtherRuns : Run(c, in[1], in[2]) /\ UNCHANGED <<lockv, unlockv, listenv>>
          \/ RunUnlock(c) /\ UNCHANGED <<lockv, unlockv, listenv>>
          \/ RunReturn(c) /\ UNCHANGED <<lockv, unlockv, listenv>>
    \/ \E c \in Procs :
          \/ RunPhases(c) /\ plan'[c] \in ShortPlans /\ UNCHANGED <<lockv, unlockv, listenv>>
          \/ runRange(c) /\ UNCHANGED <<lockv, unlockv, listenv>>
          \/ runPhaseGo(c) /\ UNCHANGED <<lockv, unlockv, listenv>>
          \/ \E j \in 1..MaxTasks : TaskRun(c, j) /\ UNCHANGED <<lockv, unlockv, listenv>>
          \/ runPhaseWait(c) /\ UNCHANGED <<lockv, unlockv, listenv>>

SpecListen == InitListen /\ [][NextListen]_vars

(* ---------- a Controller with a Runtime, Run with every argument -------- *)

InitPlan == Init /\ hasRuntime

\* every sequence with every payload; the sequencer hands out short plans
NextPlan ==
    \E c \in Callers :
       \/ \E in \in AllInputs : Run(c, in[1], in[2]) /\ UNCHANGED <<lockv, unlockv, listenv>>
       \/ RunPhases(c) /\ plan'[c] \in ShortPlans /\ UNCHANGED <<lockv, unlockv, listenv>>
       \/ runRange(c) /\ UNCHANGED <<lockv, unlockv, listenv>>
       \/ runPhaseGo(c) /\ UNCHANGED <<lockv, unlockv, listenv>>
       \/ \E j \in 1..MaxTasks : TaskRun(c, j) /\ UNCHANGED <<lockv, unlockv, listenv>>
       \/ runPhaseWait(c) /\ UNCHANGED <<lockv, unlockv, listenv>>
       \/ RunUnlock(c) /\ UNCHANGED <<lockv, unlockv, listenv>>
       \/ RunReturn(c) /\ UNCHANGED <<lockv, unlockv, listenv>>

SpecPlan == InitPlan /\ [][NextPlan]_vars

(* ------------------------------- claims -------------------------------- *)

\* caller c holds the lock: its Run is between the successful TryLock and its return
InCS(c) == pc[c] \in {"phases", "run", "runPhase", "Unlock"}

\* every task position of phase k of caller c's plan
TasksOf(c, k) == {<<k, t>> : t \in 1..Len(plan[c][k])}

\* caller c's Run is returning the error of a failed phase
ReturnsPhaseError(c) == pc[c] = "Unlock" /\ ret[c].kind = "phase"

\* C1: at every instant at most one Run call is between its successful lock
\* acquisition and its return, so at most one sequence executes phases.
C1_SingleFlight == Cardinality({c \in Callers : InCS(c)}) <= 1

\* a Run executes a task while a concurrent Run is turned away
C1_Witness ==
    \E c, d \in Callers :
       /\ pc[c] = "runPhase" /\ \E j \in 1..Len(tasks[c]) : tasks[c][j].state = "running"
       /\ pc[d] = "return" /\ ret[d] = ErrLocked

\* C2: a Run call that attempts the lock while another Run holds it returns
\* ErrLocked in that very step (it never waits), with no plan, no task started
\* and the lock flag unchanged, and the holder is not disturbed; a Run call
\* returns ErrLocked only in that case.
C2_LockedWithoutEffect ==
    /\ [](\A c \in Callers : pc[c] = "idle" => ENABLED Run(c, "shutdown", "nil"))
    /\ [](\A c \in Callers :
            pc[c] = "return" =>
               plan[c] = <<>> /\ tasks[c] = <<>> /\ started[c] = {} /\ finished[c] = {})
    /\ [][\A c \in Callers :
            (hasRuntime /\ pc[c] = "idle" /\ pc'[c] # "idle") =>
               /\ (semaphore = 1) <=> (pc'[c] = "return" /\ ret'[c] = ErrLocked)
               /\ semaphore = 1 =>
                     /\ semaphore' = semaphore
                     /\ \E d \in Callers \ {c} :
                           /\ InCS(d)
                           /\ pc'[d] = pc[d] /\ plan'[d] = plan[d] /\ tasks'[d] = tasks[d]
               /\ semaphore = 0 => InCS(c)']_vars

\* one Run is planning or running and the other has been turned away, empty-handed
C2_Witness ==
    \E c, d \in Callers :
       /\ InCS(c) /\ plan[c] # <<>>
       /\ pc[d] = "return" /\ ret[d] = ErrLocked /\ plan[d] = <<>> /\ started[d] = {}
       /\ semaphore = 1

\* C3: a Run that acquired the lock clears the flag when it returns, on every
\* exit path; the flag is set only while some Run holds the lock, so the next
\* Run call acquires it.
C3_LockReleased ==
    /\ [](semaphore = 1 => \E c \in Callers : InCS(c))
    /\ [][\A c \in Callers :
            /\ (pc[c] = "Unlock" /\ pc'[c] # "Unlock") => (semaphore' = 0 /\ pc'[c] = "idle")
            /\ (InCS(c) /\ ~InCS(c)') => pc[c] = "Unlock"
            /\ (hasRuntime /\ semaphore = 0 /\ pc[c] = "idle" /\ pc'[c] # "idle") =>
                  pc'[c] = "phases"]_vars

\* after a Run has returned, a later Run holds the lock and is returning a phase error
C3_Witness ==
    /\ released
    /\ \E c \in Callers : ReturnsPhaseError(c) /\ semaphore = 1

\* C4: without a Runtime, Run returns ErrUndefinedRuntime whatever its
\* arguments, leaves the lock flag as it is, free or held, plans nothing and
\* starts no task.
C4_UndefinedRuntime ==
    /\ [](\A c \in Callers :
            /\ pc[c] \in {"idle", "return"}
            /\ pc[c] = "return" => ret[c] = ErrUndefinedRuntime
            /\ plan[c] = <<>> /\ tasks[c] = <<>> /\ started[c] = {})
    /\ [][\A c \in Callers :
            (pc[c] = "idle" /\ pc'[c] # "idle") =>
               (pc'[c] = "return" /\ ret'[c] = ErrUndefinedRuntime /\ semaphore' = semaphore)]_vars

\* Run(reset, ResetRequest) has returned ErrUndefinedRuntime while the lock is held
C4_Witness ==
    \E c \in Callers :
       /\ pc[c] = "return" /\ ret[c] = ErrUndefinedRuntime
       /\ seq[c] = "reset" /\ data[c] = "ResetRequest"
       /\ semaphore = 1

\* C5: a task of phase k is started only when every task of every earlier
\* phase has finished.
C5_PhasesInOrder ==
    \A c \in Callers : \A st \in started[c] :
       \A k \in 1..(st[1] - 1) : TasksOf(c, k) \subseteq finished[c]

\* in phase 2, task 2 has finished while task 1, started before it, still runs
C5_Witness ==
    \E c \in Callers :
       /\ <<2, 1>> \in started[c] /\ <<2, 1>> \notin finished[c]
       /\ <<2, 2>> \in finished[c]

\* C6: when a task fails, in phase k, every task of phases 1..k-1 has run to
\* completion, no task of a phase after k is ever started, and Run returns an
\* error; Run returns no error only when every task of every phase succeeded.
C6_StopAtFirstFailure ==
    \A c \in Callers :
       /\ failed[c] > 0 =>
             /\ pc[c] \in {"runPhase", "Unlock"}
             /\ pc[c] = "Unlock" => ret[c].kind = "phase"
             /\ \A st \in started[c] : st[1] <= idx[c] + 1
             /\ \A k \in 1..idx[c] : TasksOf(c, k) \subseteq finished[c]
       /\ ReturnsPhaseError(c) => failed[c] > 0
       /\ (pc[c] = "Unlock" /\ ret[c] = nil) =>
             /\ failed[c] = 0
             /\ \A k \in 1..Len(plan[c]) : TasksOf(c, k) \subseteq finished[c]

\* Run returns the error of phase 1 of 2: phase 2 has not been started
C6_Witness ==
    \E c \in Callers :
       /\ ReturnsPhaseError(c)
       /\ Len(plan[c]) = 2 /\ idx[c] = 0
       /\ TasksOf(c, 1) \subseteq finished[c]
       /\ \A st \in started[c] : st[1] = 1

\* C7: when runPhase returns, with or without an error, every task of the
\* phase has been launched and has finished; a failure stops no sibling.
C7_JoinAll ==
    \A c \in Callers :
       /\ ReturnsPhaseError(c) =>
             /\ TasksOf(c, idx[c] + 1) \subseteq started[c]
             /\ TasksOf(c, idx[c] + 1) \subseteq finished[c]
             /\ Len(tasks[c]) = Len(plan[c][idx[c] + 1])
             /\ \A j \in 1..Len(tasks[c]) : tasks[c][j].state = "done"
       /\ pc[c] = "run" =>
             \A k \in 1..idx[c] : TasksOf(c, k) \subseteq finished[c]

\* a phase of two tasks returns its error: task 1 failed, task 2 finished without error
C7_Witness ==
    \E c \in Callers :
       /\ ReturnsPhaseError(c)
       /\ Len(plan[c][idx[c] + 1]) = 2
       /\ first[c] # <<>> /\ first[c][1] = 1
       /\ failed[c] = 1
       /\ TasksOf(c, idx[c] + 1) \subseteq finished[c]

\* the error runPhase surfaces for what the tasks of the phase have done so far
FirstFailure(c) ==
    IF first[c] = <<>> THEN nil
    ELSE [kind |-> "task", number |-> first[c][1],
          total |-> Len(plan[c][idx[c] + 1]), cause |-> first[c][2]]

\* C8: the one error runPhase surfaces is that of the failing task that
\* finished first, whatever its position and however many fail after it; it
\* surfaces none iff no task of the phase failed.
C8_FirstErrorWins ==
    \A c \in Callers :
       /\ pc[c] = "runPhase" => egErr[c] = FirstFailure(c)
       /\ ReturnsPhaseError(c) => (first[c] # <<>> /\ ret[c].cause = FirstFailure(c))
       /\ pc[c] \in {"runPhase", "Unlock"} => ((egErr[c] = nil) <=> (failed[c] = 0))

\* both tasks of a phase failed, task 2 first and with another error than task 1
C8_Witness ==
    \E c \in Callers :
       /\ ReturnsPhaseError(c)
       /\ failed[c] = 2
       /\ first[c][1] = 2 /\ first[c][2] = ErrSetupLogger
       /\ ret[c].cause.number = 2 /\ ret[c].cause.cause = ErrSetupLogger

\* C9: the error Run returns for a failed task is the phase layer (1-based
\* index of the failing phase, sequence name) around the task layer (1-based
\* position of the task, number of tasks of the phase) around the task's error.
C9_ErrorLayers ==
    \A c \in Callers :
       ReturnsPhaseError(c) =>
          /\ first[c] # <<>>
          /\ first[c][2] \in TaskErrs \cup {ErrSetupLogger}
          /\ ret[c] = [kind   |-> "phase",
                       number |-> idx[c] + 1,
                       seq    |-> seq[c],
                       cause  |-> [kind   |-> "task",
                                   number |-> first[c][1],
                                   total  |-> Len(plan[c][idx[c] + 1]),
                                   cause  |-> first[c][2]]]
          /\ \E st \in started[c] : st[1] = ret[c].number
          /\ \A st \in started[c] : st[1] <= ret[c].number

\* Run(upgrade) returns: phase 2, upgrade, task 2 of 2, "disk busy"
C9_Witness ==
    \E c \in Callers :
       /\ ReturnsPhaseError(c)
       /\ ret[c].number = 2 /\ ret[c].seq = "upgrade"
       /\ ret[c].cause.number = 2 /\ ret[c].cause.total = 2
       /\ ret[c].cause.cause = [kind |-> "errors", msg |-> "disk busy"]

\* the plan [ {A, B}, {C} ] of the shutdown sequence, C failing with "disk busy"
DiskBusyScenario(c) ==
    /\ ReturnsPhaseError(c)
    /\ seq[c] = "shutdown"
    /\ Len(plan[c]) = 2 /\ Len(plan[c][1]) = 2 /\ Len(plan[c][2]) = 1
    /\ <<2, 1>> \in started[c]
    /\ failed[c] = 1
    /\ first[c] = <<1, [kind |-> "errors", msg |-> "disk busy"]>>

\* C10 as stated: the error carries the number of phases of the plan
C10_Original ==
    \A c \in Callers :
       ReturnsPhaseError(c) =>
          ("total" \in DOMAIN ret[c] /\ ret[c].total = Len(plan[c]))

\* C10, amended: the error names the failing phase by its index and the
\* sequence, and nothing else of the plan: the number of phases is not in it.
\* In the scenario it is: phase 2, shutdown, task 1 of 1, "disk busy", and A
\* and B have finished.
C10_PhaseIndexOnly ==
    \A c \in Callers :
       /\ ReturnsPhaseError(c) =>
             /\ DOMAIN ret[c] = {"kind", "number", "seq", "cause"}
             /\ ret[c].number = idx[c] + 1
             /\ ret[c].seq = seq[c]
       /\ DiskBusyScenario(c) =>
             /\ ret[c] = [kind   |-> "phase",
                          number |-> 2,
                          seq    |-> "shutdown",
                          cause  |-> [kind   |-> "task",
                                      number |-> 1,
                                      total  |-> 1,
                                      cause  |-> [kind |-> "errors", msg |-> "disk busy"]]]
             /\ {<<1, 1>>, <<1, 2>>} \subseteq finished[c]

\* the scenario has happened
C10_Witness == \E c \in Callers : DiskBusyScenario(c)

(* ------------------------- claims on planning --------------------------- *)

\* the payload type phases() asserts for the sequence, "nil" where it asserts none
Expected(s) ==
    IF s = "upgrade" THEN "UpgradeRequest" ELSE IF s = "reset" THEN "ResetRequest" ELSE "nil"

\* c's Run is an Upgrade without an UpgradeRequest or a Reset without a ResetRequest
Mismatch(c) == seq[c] \in {"upgrade", "reset"} /\ data[c] # Expected(seq[c])

\* c's Run holds the lock and has left phases()
Planned(c) == pc[c] \in {"run", "runPhase", "Unlock"}

\* phases() refused c's Run: InvalidSequenceData, no phase, no task, only the deferred Unlock left
Rejected(c) ==
    /\ pc[c] = "Unlock"
    /\ ret[c] = ErrInvalidSequenceData
    /\ plan[c] = <<>>
    /\ tasks[c] = <<>>
    /\ started[c] = {}

\* C11: Run(upgrade, d) with d not an UpgradeRequest (nil included), and Run(reset, d)
\* with d not a ResetRequest, return InvalidSequenceData with no phase planned and no
\* task run, and the return releases the lock that Run took.
C11_InvalidSequenceData ==
    /\ [](\A c \in Callers : Mismatch(c) /\ Planned(c) => Rejected(c))
    /\ [][\A c \in Callers :
             Mismatch(c) /\ pc[c] = "phases" /\ pc'[c] # "phases" => pc'[c] = "Unlock"]_vars
    /\ [][\A c \in Callers :
             Mismatch(c) /\ pc[c] = "Unlock" /\ pc'[c] # "Unlock"
                => semaphore' = 0 /\ pc'[c] = "idle"]_vars

C11_Witness ==
    \E c \in Callers : Rejected(c) /\ seq[c] = "reset" /\ data[c] = "UpgradeRequest"

\* C12 as stated: whatever the sequence, a payload other than the expected one is
\* rejected with an error and nothing is planned.
C12_Original ==
    \A c \in Callers :
       Planned(c) /\ data[c] # Expected(seq[c])
          => pc[c] = "Unlock" /\ ret[c] # nil /\ plan[c] = <<>> /\ started[c] = {}

\* C12: phases() rejects a payload of the wrong type for upgrade and reset only; boot,
\* initialize, install, shutdown and reboot are planned whatever payload comes with them.
C12_RejectsUpgradeResetOnly ==
    /\ [](\A c \in Callers :
             Planned(c) => IF Mismatch(c) THEN Rejected(c)
                                         ELSE ret[c] # ErrInvalidSequenceData)
    /\ [][\A c \in Callers :
             pc[c] = "phases" /\ pc'[c] # "phases"
                => pc'[c] = (IF Mismatch(c) THEN "Unlock" ELSE "run")]_vars

C12_Witness ==
    \E c \in Callers :
       /\ seq[c] = "boot"
       /\ data[c] = "UpgradeRequest"
       /\ pc[c] = "runPhase"
       /\ started[c] # {}

(* ---------------------- claims on the lock primitive -------------------- *)

\* the flag after the first i direct calls of lockLog
FlagAfter(i) == IF i > 0 /\ lockLog[i].op = "TryLock" THEN 1 ELSE 0

\* C13: under any series of TryLock and Unlock calls the lock is a binary flag: TryLock
\* returns true exactly when the flag was set already and false when the call set it
\* (so false then true for two TryLocks in a row, false again after an Unlock), Unlock
\* leaves the flag clear whether it was set or not, and the flag is only ever 0 or 1.
C13_BinaryFlag ==
    /\ semaphore \in {0, 1}
    /\ semaphore = FlagAfter(Len(lockLog))
    /\ \A i \in 1..Len(lockLog) :
          lockLog[i].op = "TryLock" => lockLog[i].ret = (FlagAfter(i - 1) = 1)

C13_Witness ==
    /\ Len(lockLog) = 4
    /\ lockLog[1].op = "TryLock" /\ ~lockLog[1].ret
    /\ lockLog[2].op = "TryLock" /\ lockLog[2].ret
    /\ lockLog[3].op = "Unlock"
    /\ lockLog[4].op = "Unlock"
    /\ semaphore = 0

\* calls i..j of lockLog are TryLocks that began on a free lock: no Unlock among them,
\* and the flag was clear before call i
FreeRace(i, j) ==
    /\ i <= j
    /\ FlagAfter(i - 1) = 0
    /\ \A k \in i..j : lockLog[k].op = "TryLock"

\* C14: when several callers call TryLock on a free lock with no Unlock in between,
\* exactly one of them gets false (acquired) and every other gets true, whatever the
\* order in which their compare-and-swaps happen.
C14_OneWinner ==
    \A i, j \in 1..Len(lockLog) :
       FreeRace(i, j) => Cardinality({k \in i..j : ~lockLog[k].ret}) = 1

C14_Witness ==
    /\ Len(lockLog) = NumCallers
    /\ FreeRace(1, NumCallers)
    /\ lockLog[1].conc = Callers \ {lockLog[1].who}
    /\ {lockLog[k].who : k \in 1..NumCallers} = Callers

(* ------------------------ claims on ListenForEvents --------------------- *)

\* C15: in container mode ListenForEvents returns nil at once, without waiting for the
\* signal and without starting the ACPI goroutine; the goroutine waiting for SIGTERM,
\* started before, goes on: a SIGTERM delivered after the return is still received
\* and still makes it call Run(shutdown, nil).
C15_ContainerReturns ==
    /\ [](lpc = "mode" => ENABLED ListenMode("container"))
    /\ [](mode = "container"
            => /\ lpc = "returned"
               /\ lret = nil
               /\ gpc[AcpiProc] = "none"
               /\ acpiRes = none
               /\ gpc[SigProc] # "none")
    /\ [](mode = "container" /\ gpc[SigProc] = "wait"
            => notified /\ (sigs > 0 => ENABLED SigRecv))
    /\ [](mode = "container" /\ gpc[SigProc] = "call" => ENABLED ListenerRun(SigProc))
    /\ [][mode = "container" /\ gpc[SigProc] = "call" /\ gpc'[SigProc] # "call"
            => seq'[SigProc] = "shutdown" /\ data'[SigProc] = "nil"]_vars

C15_Witness ==
    /\ mode = "container"
    /\ sigAt = "returned"
    /\ seq[SigProc] = "shutdown"
    /\ started[SigProc] # {}

\* C16: what the goroutines' Run(shutdown) returns never becomes the return value of
\* ListenForEvents: a result that comes from a goroutine that has called Run is nil,
\* whether that Run returned nil, a phase error or ErrLocked.
C16_RunErrorSwallowed ==
    /\ \A i \in 1..Len(errCh) : trig[errCh[i].from] # none => errCh[i].err = nil
    /\ lpc = "returned" /\ mode = "metal" /\ trig[lfrom] # none => lret = nil

C16_Witness ==
    /\ lpc = "returned"
    /\ mode = "metal"
    /\ lfrom = AcpiProc
    /\ trig[AcpiProc].kind = "phase"
    /\ lret = nil

\* C17 as stated: whenever StartACPIListener fails while ListenForEvents is waiting,
\* ListenForEvents returns that error.
C17_Original ==
    lpc = "returned" /\ acpiRes = ErrACPI /\ acpiAt = "recv" => lret = ErrACPI

\* C17: when StartACPIListener fails the ACPI goroutine calls no Run and sends the
\* error; ListenForEvents returns it when it is the first result in errCh, and nil when
\* the signal goroutine's result is there before it. It returns no other error.
C17_ErrorIfFirst ==
    /\ acpiRes = ErrACPI
          => /\ gpc[AcpiProc] = "done"
             /\ trig[AcpiProc] = none
             /\ pc[AcpiProc] = "idle"
             /\ started[AcpiProc] = {}
    /\ lpc = "returned" /\ mode = "metal"
          => lret = (IF lfrom = AcpiProc /\ acpiRes = ErrACPI THEN ErrACPI ELSE nil)
    /\ lpc = "recv" /\ acpiRes = ErrACPI => \E i \in 1..Len(errCh) : errCh[i].err = ErrACPI

C17_Witness ==
    /\ lpc = "returned"
    /\ lret = ErrACPI
    /\ lfrom = AcpiProc

\* C18: outside container mode ListenForEvents returns once a goroutine has sent its
\* result (which a goroutine that calls Run does after Run has returned), with the
\* first result sent; it does not wait for the other goroutine and stops nothing: that
\* goroutine can still call Run(shutdown) after ListenForEvents has returned.
C18_FirstResult ==
    /\ [](lpc = "recv" => (ENABLED ListenRecv <=> errCh # <<>>))
    /\ [][lpc = "recv" /\ lpc' = "returned"
            => /\ lret' = Head(errCh).err
               /\ lfrom' = Head(errCh).from
               /\ gpc' = gpc
               /\ pc' = pc
               /\ notified' = notified
               /\ sigs' = sigs]_vars
    /\ [](\A i \in 1..Len(errCh) :
             /\ gpc[errCh[i].from] = "done"
             /\ pc[errCh[i].from] = "idle"
             /\ trig[errCh[i].from] = none => errCh[i].err = ErrACPI)
    /\ [](lpc = "returned"
            => /\ \A g \in Listeners : gpc[g] = "call" => ENABLED ListenerRun(g)
               /\ gpc[SigProc] = "wait" => notified)

C18_Witness ==
    /\ lpc = "returned"
    /\ lfrom = AcpiProc
    /\ sigAt = "returned"
    /\ seq[SigProc] = "shutdown"
    /\ started[SigProc] # {}

\* C19: a shutdown trigger that finds the lock held is lost: the goroutine's one
\* Run(shutdown) returns ErrLocked without a task, the goroutine does not call Run
\* again, and it still sends nil.
C19_LockedShutdownLost ==
    /\ [][\A g \in Listeners :
             gpc[g] = "call" /\ gpc'[g] # "call" /\ semaphore = 1
                => pc'[g] = "return" /\ ret'[g] = ErrLocked /\ started'[g] = {}]_vars
    /\ [](\A g \in Listeners :
             trig[g] = ErrLocked
                => gpc[g] \in {"send", "done"} /\ pc[g] = "idle" /\ started[g] = {})
    /\ [][\A g \in Listeners :
             gpc[g] = "send" /\ gpc'[g] # "send"
                => gpc'[g] = "done" /\ errCh' = Append(errCh, [err |-> nil, from |-> g])]_vars
    /\ [][\A g \in Listeners : gpc[g] = "done" => gpc'[g] = "done"]_vars

C19_Witness ==
    /\ trig[SigProc] = ErrLocked
    /\ lpc = "returned"
    /\ lfrom = SigProc
    /\ lret = nil
    /\ \E c \in Callers : InCS(c)

(* ------------------- claims on Unlock from outside Run ------------------ *)

\* the callers whose Run is between its TryLock and its deferred Unlock
Holders == {c \in Callers : InCS(c)}

\* C20: Unlock checks no owner. A direct Unlock is never refused and clears the flag
\* under a Run that is executing, and Run's deferred Unlock clears it whoever set it;
\* one sequence at a time holds only as long as no direct Unlock has cleared a flag
\* set by a Run. After one has, a second Run gets in next to the first, and the first
\* Run's deferred Unlock frees the lock while the second is still executing.
C20_NoOwnershipCheck ==
    /\ [](ENABLED DirectUnlock)
    /\ [][DirectUnlock => semaphore' = 0 /\ pc' = pc]_vars
    /\ [][\A c \in Callers : pc[c] = "Unlock" /\ pc'[c] = "idle" => semaphore' = 0]_vars
    /\ [](~stolen => Cardinality(Holders) <= 1)
    /\ [](semaphore = 0 /\ Holders # {} => stolen)

C20_Witness ==
    /\ stolen
    /\ lastClear = "deferred"
    /\ semaphore = 0
    /\ \E d \in Callers :
          /\ pc[d] = "runPhase"
          /\ \E j \in 1..Len(tasks[d]) : tasks[d][j].state = "running"

====
